---------------------------- MODULE Spec2Model ----------------------------
(***************************************************************************)
(* Model of the token cache (cached_token.py), the authenticated session   *)
(* (session.py) and the auth-header classes (auth.py) of                   *)
(* openedx-rest-api-client.                                                *)
(*                                                                         *)
(* Time is the wall clock read by datetime.datetime.utcnow(), in whole     *)
(* seconds.  A token POST is a blocking call: the clock read before it     *)
(* (cached_token.py line 64) and the clock after it differ by the latency  *)
(* of the call.  The auth server is the environment: every response the    *)
(* transport can deliver is an input of the actions.                       *)
(***************************************************************************)
EXTENDS Integers, Sequences, FiniteSets, TLC

VARIABLES
    clock,          \* datetime.datetime.utcnow()
    environ,        \* os.environ and the resolver, as user_agent() finds them
    USER_AGENT,     \* session.USER_AGENT, set when the module is imported
    auth,           \* OAuthAPISession.auth: [cls, token]
    _token_type,    \* OAuthAPISession._token_type
    _base_url,      \* OAuthAPISession._base_url
    _client_id,     \* OAuthAPISession._client_id
    _client_secret, \* OAuthAPISession._client_secret
    _timeout,       \* OAuthAPISession._timeout
    oauth_uri,      \* OAuthAPISession.oauth_uri
    _access_token,  \* OAuthAPISession._access_token: PyNone or a CachedToken
    constructed,    \* history: the constructor call that built the object
    origin,         \* history: request-start time and expires_in of the cached token
    last,           \* observation of the last call: inputs, result, effects
    frames,         \* the calls in progress on a CachedToken shared by threads
    fetched,        \* history: the (token, stored expiration) pairs of the fetches
    server,         \* the pages the API server holds for the listing under way
    stack,          \* the frames of _get_courses / _get_course_grades, innermost last
    gets,           \* history: the page GETs the listing handed to the transport
    outcome         \* what the listing call returned or raised

vars == <<clock, environ, USER_AGENT, auth, _token_type, _base_url, _client_id,
          _client_secret, _timeout, oauth_uri, _access_token, constructed, origin,
          last, frames, fetched, server, stack, gets, outcome>>

\* what the import and OAuthAPISession.__init__ set and no method assigns again
settings ==
    <<environ, USER_AGENT, _token_type, _base_url, _client_id, _client_secret, _timeout,
      constructed>>

\* the state of the threads that share a CachedToken
threads == <<frames, fetched>>

\* the state of a paginated listing of OpenedxRESTAPIClient
paging == <<server, stack, gets, outcome>>

----------------------------------------------------------------------------
\* Bounds of the model.

MaxClock == 7
MaxLatency == 1
MaxTick == 2
MaxClockA == 60
MaxClockS == 3
MaxUrlLen == 5
MaxClockR == 2
NumThreads == 2
MaxPages == 4
\* the frames of a listing helper the interpreter allows before it raises
\* RecursionError (sys.getrecursionlimit(), 1000 by default, less the frames
\* of the caller), scaled down
RecursionLimit == 3

\* cached_token.py line 14
ACCESS_TOKEN_EXPIRED_THRESHOLD_SECONDS == 5

\* cached_token.py lines 9-10 and session.py lines 14-15, in hundredths of a second
REQUEST_CONNECT_TIMEOUT == 305
REQUEST_READ_TIMEOUT == 500

----------------------------------------------------------------------------
\* Python values.

PyNone == [type |-> "NoneType"]
PyStr(s) == [type |-> "str", val |-> s]
PyInt(n) == [type |-> "int", val |-> n]
PyTuple(t) == [type |-> "tuple", val |-> t]
PyBool(b) == [type |-> "bool", val |-> b]
Missing == [type |-> "missing"]

\* A str that is a URL or a part of one, held as its pieces: "/" and the
\* text between slashes.
PyUrl(u) == [type |-> "url", val |-> u]

\* bool(v)
Truthy(v) ==
    CASE v.type = "str" -> v.val # ""
      [] v.type = "url" -> v.val # <<>>
      [] v.type = "int" -> v.val # 0
      [] v.type = "tuple" -> v.val # <<>>
      [] v.type = "bool" -> v.val
      [] v.type = "CachedToken" -> TRUE
      [] OTHER -> FALSE

\* str(v) as an f-string formats it
Format(v) ==
    CASE v.type = "str" -> v.val
      [] v.type = "NoneType" -> "None"
      [] OTHER -> "?"

\* a parameter with a default value
Default(v, d) == IF v = Missing THEN d ELSE v

\* str.rstrip('/')
RECURSIVE rstrip(_)
rstrip(u) ==
    IF u # <<>> /\ u[Len(u)] = "/" THEN rstrip(SubSeq(u, 1, Len(u) - 1)) ELSE u

\* str.endswith(suffix)
endswith(u, suffix) ==
    /\ Len(suffix) <= Len(u)
    /\ SubSeq(u, Len(u) - Len(suffix) + 1, Len(u)) = suffix

----------------------------------------------------------------------------
\* The auth server's answers to a token POST.

Tokens == {PyNone, PyStr(""), PyStr("cred1"), PyStr("cred2")}
ExpiresIn == {0, 12}

Body(kind, access_token, expires_in) ==
    [kind |-> kind, access_token |-> access_token, expires_in |-> expires_in]

\* {"access_token": ..., "expires_in": ...}
TokenBodies ==
    {Body("object", t, PyInt(e)) : t \in {PyStr("cred1"), PyStr("cred2")}, e \in ExpiresIn}
    \cup {Body("object", PyNone, PyInt(12)), Body("object", PyStr(""), PyInt(12))}

\* not JSON; JSON that is no object; an object without one key; expires_in null
BadBodies ==
    {Body("invalid", Missing, Missing),
     Body("nonobject", Missing, Missing),
     Body("object", Missing, PyInt(12)),
     Body("object", PyStr("cred1"), Missing),
     Body("object", PyStr("cred1"), PyNone)}

NoBody == Body("none", Missing, Missing)

Responses ==
    {[net |-> "ok", status |-> 200, body |-> b] : b \in TokenBodies \cup BadBodies}
    \cup {[net |-> "ok", status |-> s, body |-> b] :
            s \in {404, 500},
            b \in {Body("invalid", Missing, Missing), Body("object", PyStr("cred1"), PyInt(12))}}
    \cup {[net |-> "error", status |-> 0, body |-> NoBody]}

NoResponse == [net |-> "none", status |-> 0, body |-> NoBody]

\* 200 with a token good for 12s, or 500
FewResponses ==
    {[net |-> "ok", status |-> 200, body |-> Body("object", PyStr("cred1"), PyInt(12))],
     [net |-> "ok", status |-> 500, body |-> Body("invalid", Missing, Missing)]}

\* Scenario A: the auth endpoint answers 200 {"access_token": ..., "expires_in": 60}
ScenarioAResponses ==
    {[net |-> "ok", status |-> 200,
      body |-> Body("object", t, PyInt(60))] :
        t \in {PyStr("cred1"), PyStr("cred2")}}

----------------------------------------------------------------------------
----------------------------------------------------------------------------
\* cached_token.py

\* the default of the timeout parameters (lines 43 and 104)
DefaultTimeout == PyTuple(<<REQUEST_CONNECT_TIMEOUT, REQUEST_READ_TIMEOUT>>)

\* Faulty variant: the path is appended whatever the URL ends with.
_get_oauth_url_always_append(url) ==
    rstrip(url) \o <<"/", "oauth2", "/", "access_token">>

_get_oauth_url(url) ==
    LET stripped_url == rstrip(url)
    IN  IF endswith(stripped_url, <<"/", "access_token">>)
        THEN url
        ELSE IF endswith(stripped_url, <<"/", "oauth2">>)
        THEN stripped_url \o <<"/", "access_token">>
        ELSE stripped_url \o <<"/", "oauth2", "/", "access_token">>

\* requests.Response.raise_for_status (line 84): TRUE when it raises HTTPError
raise_for_status(status) == 400 <= status /\ status < 600

\* requests.post(...) of lines 76-83 as the transport sees it
NoPost ==
    [made |-> FALSE, url |-> <<>>, data |-> <<>>, user_agent |-> Missing, timeout |-> Missing]

NoToken ==
    [raised |-> "None", posts |-> 0, access_token |-> PyNone, expires_at |-> 0, post |-> NoPost]

\* Lines 86-95: the body of a response whose status passed.
parse_token_response(now, body) ==
    IF body.kind = "invalid"
    THEN [NoToken EXCEPT !.raised = "RequestException", !.posts = 1]   \* JSONDecodeError
    ELSE IF body.kind # "object"
    THEN [NoToken EXCEPT !.raised = "TypeError", !.posts = 1]          \* data['access_token'] on a non-dict
    ELSE IF body.access_token = Missing \/ body.expires_in = Missing
    THEN [NoToken EXCEPT !.raised = "RequestException", !.posts = 1]   \* KeyError
    ELSE IF body.expires_in.type # "int"
    THEN [NoToken EXCEPT !.raised = "TypeError", !.posts = 1]          \* timedelta(seconds=...)
    ELSE [NoToken EXCEPT !.posts = 1,
                         !.access_token = body.access_token,
                         !.expires_at = now + body.expires_in.val]

\* Lines 65-72: the form data of the token request, a dict
token_request_data(client_id, client_secret, token_type, grant_type, refresh_token) ==
    [k \in {"grant_type", "client_id", "client_secret", "token_type"}
           \cup (IF Truthy(refresh_token) THEN {"refresh_token"} ELSE {}) |->
        CASE k = "grant_type" -> PyStr(grant_type)
          [] k = "client_id" -> PyStr(client_id)
          [] k = "client_secret" -> PyStr(client_secret)
          [] k = "token_type" -> PyStr(token_type)
          [] k = "refresh_token" -> refresh_token]

\* Lines 76-83
token_request(url, data, user_agent, timeout) ==
    [made |-> TRUE,
     url |-> _get_oauth_url(url),
     data |-> data,
     user_agent |-> Default(user_agent, PyNone),
     timeout |-> Default(timeout, DefaultTimeout)]

\* Faulty variant: the body is parsed before the status is looked at.
get_oauth_access_token_parse_first(now, url, client_id, client_secret, token_type, grant_type, refresh_token, user_agent, timeout, resp) ==
    LET data == token_request_data(client_id, client_secret, token_type, grant_type, refresh_token)
        post == token_request(url, data, user_agent, timeout)
    IN  IF ~Truthy(refresh_token) /\ grant_type = "refresh_token"
        THEN [NoToken EXCEPT !.raised = "AssertionError"]
        ELSE IF resp.net # "ok"
        THEN [NoToken EXCEPT !.raised = "ConnectionError", !.posts = 1, !.post = post]
        ELSE LET parsed == [parse_token_response(now, resp.body) EXCEPT !.post = post]
             IN  IF parsed.raised # "None" THEN parsed
                 ELSE IF raise_for_status(resp.status)
                 THEN [NoToken EXCEPT !.raised = "HTTPError", !.posts = 1, !.post = post]
                 ELSE parsed

\* Faulty variant: the refresh-token grant is not checked for its token.
get_oauth_access_token_unchecked(now, url, client_id, client_secret, token_type, grant_type, refresh_token, user_agent, timeout, resp) ==
    LET data == token_request_data(client_id, client_secret, token_type, grant_type, refresh_token)
        post == token_request(url, data, user_agent, timeout)
    IN  IF resp.net # "ok"
        THEN [NoToken EXCEPT !.raised = "ConnectionError", !.posts = 1, !.post = post]
        ELSE IF raise_for_status(resp.status)
        THEN [NoToken EXCEPT !.raised = "HTTPError", !.posts = 1, !.post = post]
        ELSE [parse_token_response(now, resp.body) EXCEPT !.post = post]

\* get_oauth_access_token; now is the clock at line 64, resp the answer to
\* the POST of lines 76-83.
get_oauth_access_token(now, url, client_id, client_secret, token_type, grant_type, refresh_token, user_agent, timeout, resp) ==
    LET data == token_request_data(client_id, client_secret, token_type, grant_type, refresh_token)
        post == token_request(url, data, user_agent, timeout)
    IN  IF ~Truthy(refresh_token) /\ grant_type = "refresh_token"
        THEN [NoToken EXCEPT !.raised = "AssertionError"]
        ELSE IF resp.net # "ok"
        THEN [NoToken EXCEPT !.raised = "ConnectionError", !.posts = 1, !.post = post]
        ELSE IF raise_for_status(resp.status)
        THEN [NoToken EXCEPT !.raised = "HTTPError", !.posts = 1, !.post = post]
        ELSE [parse_token_response(now, resp.body) EXCEPT !.post = post]

\* CachedToken.__init__
CachedToken(now, url, client_id, client_secret, token_type, grant_type, refresh_token, user_agent, timeout) ==
    [type |-> "CachedToken",
     oauth_access_token |-> PyNone,
     expiration |-> now,
     url |-> url,
     client_id |-> client_id,
     client_secret |-> client_secret,
     token_type |-> token_type,
     grant_type |-> grant_type,
     refresh_token |-> Default(refresh_token, PyNone),
     user_agent |-> Default(user_agent, PyNone),
     timeout |-> Default(timeout, DefaultTimeout)]

\* Faulty variant: any token but None counts as cached.
cached_unexpired_not_none(self, now) ==
    /\ self.oauth_access_token # PyNone
    /\ now < self.expiration - ACCESS_TOKEN_EXPIRED_THRESHOLD_SECONDS

\* Faulty variant: a cached token is served whatever the clock reads.
cached_no_expiry_check(self, now) == Truthy(self.oauth_access_token)

\* Lines 137-140: is the cached token served?
cached_unexpired(self, now) ==
    /\ Truthy(self.oauth_access_token)
    /\ now < self.expiration - ACCESS_TOKEN_EXPIRED_THRESHOLD_SECONDS

\* Faulty variant: a failed fetch is tried a second time.
fetch_for_retry(self, now, resp) ==
    LET r == get_oauth_access_token(now, _get_oauth_url(self.url), self.client_id,
                                    self.client_secret, self.token_type, self.grant_type,
                                    self.refresh_token, self.user_agent, self.timeout, resp)
    IN  IF r.raised # "None" /\ r.posts = 1 THEN [r EXCEPT !.posts = 2] ELSE r

\* Lines 143-152
fetch_for(self, now, resp) ==
    get_oauth_access_token(now, _get_oauth_url(self.url), self.client_id, self.client_secret,
                           self.token_type, self.grant_type, self.refresh_token,
                           self.user_agent, self.timeout, resp)

\* Faulty variant: the new entry is merged with the old one, the later
\* expiration is kept.
get_and_cache_keep_later(self, now, resp) ==
    IF cached_unexpired(self, now)
    THEN [self |-> self, raised |-> "None", posts |-> 0, hit |-> TRUE,
          token |-> self.oauth_access_token, expiration |-> self.expiration,
          post |-> NoPost]
    ELSE LET r == fetch_for(self, now, resp)
         IN  IF r.raised # "None"
             THEN [self |-> self, raised |-> r.raised, posts |-> r.posts, hit |-> FALSE,
                   token |-> PyNone, expiration |-> 0, post |-> r.post]
             ELSE LET new == r.expires_at - ACCESS_TOKEN_EXPIRED_THRESHOLD_SECONDS
                      stored == IF self.expiration > new THEN self.expiration ELSE new
                  IN  [self |-> [self EXCEPT !.oauth_access_token = r.access_token,
                                             !.expiration = stored],
                       raised |-> "None", posts |-> 1, hit |-> FALSE,
                       token |-> r.access_token, expiration |-> stored, post |-> r.post]

\* Faulty variant: a hit subtracts the margin from the stored expiration.
get_and_cache_hit_resubtract(self, now, resp) ==
    IF cached_unexpired(self, now)
    THEN LET adjusted == self.expiration - ACCESS_TOKEN_EXPIRED_THRESHOLD_SECONDS
         IN  [self |-> [self EXCEPT !.expiration = adjusted],
              raised |-> "None", posts |-> 0, hit |-> TRUE,
              token |-> self.oauth_access_token, expiration |-> adjusted,
              post |-> NoPost]
    ELSE LET r == fetch_for(self, now, resp)
         IN  IF r.raised # "None"
             THEN [self |-> self, raised |-> r.raised, posts |-> r.posts, hit |-> FALSE,
                   token |-> PyNone, expiration |-> 0, post |-> r.post]
             ELSE LET stored == r.expires_at - ACCESS_TOKEN_EXPIRED_THRESHOLD_SECONDS
                  IN  [self |-> [self EXCEPT !.oauth_access_token = r.access_token,
                                             !.expiration = stored],
                       raised |-> "None", posts |-> 1, hit |-> FALSE,
                       token |-> r.access_token, expiration |-> stored, post |-> r.post]

\* Faulty variant: a failed fetch drops the cached token.
get_and_cache_drop_on_error(self, now, resp) ==
    IF cached_unexpired(self, now)
    THEN [self |-> self, raised |-> "None", posts |-> 0, hit |-> TRUE,
          token |-> self.oauth_access_token, expiration |-> self.expiration,
          post |-> NoPost]
    ELSE LET r == fetch_for(self, now, resp)
         IN  IF r.raised # "None"
             THEN [self |-> [self EXCEPT !.oauth_access_token = PyNone],
                   raised |-> r.raised, posts |-> r.posts, hit |-> FALSE,
                   token |-> PyNone, expiration |-> 0, post |-> r.post]
             ELSE LET stored == r.expires_at - ACCESS_TOKEN_EXPIRED_THRESHOLD_SECONDS
                  IN  [self |-> [self EXCEPT !.oauth_access_token = r.access_token,
                                             !.expiration = stored],
                       raised |-> "None", posts |-> 1, hit |-> FALSE,
                       token |-> r.access_token, expiration |-> stored, post |-> r.post]

\* CachedToken.get_and_cache_oauth_access_token; now is the clock at the call.
get_and_cache_oauth_access_token(self, now, resp) ==
    IF cached_unexpired(self, now)
    THEN [self |-> self, raised |-> "None", posts |-> 0, hit |-> TRUE,
          token |-> self.oauth_access_token, expiration |-> self.expiration,
          post |-> NoPost]
    ELSE LET r == fetch_for(self, now, resp)
         IN  IF r.raised # "None"
             THEN [self |-> self, raised |-> r.raised, posts |-> r.posts, hit |-> FALSE,
                   token |-> PyNone, expiration |-> 0, post |-> r.post]
             ELSE LET stored == r.expires_at - ACCESS_TOKEN_EXPIRED_THRESHOLD_SECONDS
                  IN  [self |-> [self EXCEPT !.oauth_access_token = r.access_token,
                                             !.expiration = stored],
                       raised |-> "None", posts |-> 1, hit |-> FALSE,
                       token |-> r.access_token, expiration |-> stored, post |-> r.post]

----------------------------------------------------------------------------
\* auth.py

\* SuppliedJwtAuth.__call__ / BearerAuth.__call__: the Authorization value
auth_call(a) ==
    IF a.cls = "BearerAuth"
    THEN "Bearer " \o Format(a.token)
    ELSE "JWT " \o Format(a.token)

\* Faulty variant: the auth object replaces the headers of the request.
auth_apply_replacing(a, headers) ==
    [k \in {"Authorization"} |-> auth_call(a)]

\* __call__(r): r.headers['Authorization'] = ...; return r
auth_apply(a, headers) ==
    [k \in DOMAIN headers \cup {"Authorization"} |->
        IF k = "Authorization" THEN auth_call(a) ELSE headers[k]]

----------------------------------------------------------------------------
\* session.py

\* what user_agent() reads: os.environ.get("EDX_REST_API_CLIENT_NAME"), None
\* when the variable is unset, and socket.gethostbyname(socket.gethostname()),
\* an address or an exception
Raises(exc) == [type |-> "raise", exc |-> exc]

Environs ==
    {[EDX_REST_API_CLIENT_NAME |-> name, gethostbyname |-> host] :
        name \in {PyNone, PyStr(""), PyStr("ecommerce")},
        host \in {PyStr("127.0.0.1"), Raises("gaierror")}}

Environ0 == [EDX_REST_API_CLIENT_NAME |-> PyStr("ecommerce"), gethostbyname |-> PyStr("127.0.0.1")]

\* Lines 30-31: A or B, with B evaluated only when A is falsy
client_name_lookup(env) ==
    IF Truthy(env.EDX_REST_API_CLIENT_NAME)
    THEN [raised |-> "None", value |-> env.EDX_REST_API_CLIENT_NAME.val]
    ELSE IF env.gethostbyname.type = "raise"
    THEN [raised |-> env.gethostbyname.exc, value |-> ""]
    ELSE [raised |-> "None", value |-> env.gethostbyname.val]

\* "{} edx-rest-api-client/{} {}".format(...), lines 34-38
format_user_agent(client_name) ==
    "python-requests/2 edx-rest-api-client/1 " \o client_name

\* Faulty variant: the lookup is not guarded by try/except.
user_agent_unguarded(env) ==
    LET found == client_name_lookup(env)
    IN  IF found.raised # "None"
        THEN [raised |-> found.raised, value |-> ""]
        ELSE [raised |-> "None", value |-> format_user_agent(found.value)]

\* user_agent()
user_agent(env) ==
    LET found == client_name_lookup(env)
        client_name == IF found.raised # "None" THEN "unknown_client_name" ELSE found.value
    IN  [raised |-> "None", value |-> format_user_agent(client_name)]

\* USER_AGENT = user_agent() (line 41): the module's global after the import
Imported(env) ==
    /\ environ = env
    /\ USER_AGENT = IF user_agent(env).raised = "None"
                    THEN PyStr(user_agent(env).value)
                    ELSE Missing

\* OAuthAPISession.__init__; oauth_uri is the class attribute of line 73
OAuthAPISession(base_url, client_id, client_secret, timeout, bearer) ==
    [auth |-> IF Default(bearer, PyBool(FALSE)).val
              THEN [cls |-> "BearerAuth", token |-> PyNone]
              ELSE [cls |-> "SuppliedJwtAuth", token |-> PyNone],
     _token_type |-> IF Default(bearer, PyBool(FALSE)).val THEN "bearer" ELSE "jwt",
     _base_url |-> rstrip(base_url),
     _client_id |-> client_id,
     _client_secret |-> client_secret,
     _timeout |-> Default(timeout, DefaultTimeout),
     oauth_uri |-> PyNone,
     _access_token |-> PyNone]

\* client.py, OpenedxRESTAPIClient.__init__: the session it builds
OpenedxRESTAPIClient(base_url, client_id, client_secret, timeout, bearer) ==
    OAuthAPISession(base_url, client_id, client_secret,
                    Default(timeout, PyNone), Default(bearer, PyBool(TRUE)))

\* The token the cache holds (None before the cache exists).
cached_token(tok) == IF Truthy(tok) THEN tok.oauth_access_token ELSE PyNone

\* the session object
Self ==
    [auth |-> auth, _token_type |-> _token_type, _base_url |-> _base_url,
     _client_id |-> _client_id, _client_secret |-> _client_secret,
     _timeout |-> _timeout, oauth_uri |-> oauth_uri, _access_token |-> _access_token]

\* Faulty variant: the cache is built with CachedToken's default token type.
session_cache_default_token_type(self, now) ==
    IF ~Truthy(self._access_token)
    THEN CachedToken(now,
                     IF ~Truthy(self.oauth_uri) THEN self._base_url
                     ELSE self._base_url \o self.oauth_uri.val,
                     self._client_id, self._client_secret, "jwt",
                     "client_credentials", Missing, USER_AGENT, self._timeout)
    ELSE self._access_token

\* Faulty variant: a cache that holds no usable token is built anew.
session_cache_rebuilt(self, now) ==
    IF ~Truthy(cached_token(self._access_token))
    THEN CachedToken(now,
                     IF ~Truthy(self.oauth_uri) THEN self._base_url
                     ELSE self._base_url \o self.oauth_uri.val,
                     self._client_id, self._client_secret, self._token_type,
                     "client_credentials", Missing, USER_AGENT, self._timeout)
    ELSE self._access_token

\* Lines 124-135: the cache the session uses, built when there is none
session_cache(self, now) ==
    IF ~Truthy(self._access_token)
    THEN CachedToken(now,
                     IF ~Truthy(self.oauth_uri) THEN self._base_url
                     ELSE self._base_url \o self.oauth_uri.val,
                     self._client_id, self._client_secret, self._token_type,
                     "client_credentials", Missing, USER_AGENT, self._timeout)
    ELSE self._access_token

\* Faulty variant: a failed fetch clears the token of the auth object.
_ensure_authentication_auth_cleared(self, now, resp) ==
    LET r == get_and_cache_oauth_access_token(session_cache(self, now), now, resp)
    IN  [_access_token |-> r.self,
         auth |-> [self.auth EXCEPT !.token = r.token],
         created |-> ~Truthy(self._access_token),
         result |-> r]

\* Faulty variant: the token is cached and not handed to the auth object.
_ensure_authentication_auth_unset(self, now, resp) ==
    LET r == get_and_cache_oauth_access_token(session_cache(self, now), now, resp)
    IN  [_access_token |-> r.self,
         auth |-> self.auth,
         created |-> ~Truthy(self._access_token),
         result |-> r]

\* OAuthAPISession._ensure_authentication
_ensure_authentication(self, now, resp) ==
    LET r == get_and_cache_oauth_access_token(session_cache(self, now), now, resp)
    IN  [_access_token |-> r.self,
         auth |-> IF r.raised = "None" THEN [self.auth EXCEPT !.token = r.token] ELSE self.auth,
         created |-> ~Truthy(self._access_token),
         result |-> r]

\* Per-request options a caller passes through **kwargs: an Authorization
\* header, an auth object of the caller's own, a timeout.
NoKwargs == [headers |-> Missing, auth |-> Missing, timeout |-> Missing]

Kwargs ==
    {NoKwargs,
     [NoKwargs EXCEPT !.headers = PyStr("Basic caller")],
     [NoKwargs EXCEPT !.auth = PyStr("Digest caller")],
     [NoKwargs EXCEPT !.headers = PyStr("Basic caller"), !.auth = PyStr("Digest caller")]}

NoRequest ==
    [made |-> FALSE, Authorization |-> "", by |-> "none", token |-> PyNone, timeout |-> Missing,
     user_agent |-> Missing]

\* Faulty variant: the caller's headers are merged after the auth object has run.
super_request_headers_last(kw, a) ==
    LET authed == IF kw.auth # Missing
                  THEN [made |-> TRUE, Authorization |-> kw.auth.val, by |-> "caller",
                        token |-> PyNone, timeout |-> Default(kw.timeout, PyNone),
                        user_agent |-> USER_AGENT]
                  ELSE [made |-> TRUE, Authorization |-> auth_call(a), by |-> "session",
                        token |-> a.token, timeout |-> Default(kw.timeout, PyNone),
                        user_agent |-> USER_AGENT]
    IN  IF kw.headers = Missing THEN authed
        ELSE [authed EXCEPT !.Authorization = kw.headers.val]

\* super().request(method, url, **kwargs): requests prepares the headers
\* (the caller's over the session's) and then calls the auth object, the
\* per-request one when the caller gave one, else the session's.
super_request(kw, a) ==
    LET headers == IF kw.headers = Missing THEN "" ELSE kw.headers.val
        prepared == [made |-> TRUE, Authorization |-> headers, by |-> "caller",
                     token |-> PyNone, timeout |-> Default(kw.timeout, PyNone),
                     user_agent |-> USER_AGENT]
    IN  IF kw.auth # Missing
        THEN [prepared EXCEPT !.Authorization = kw.auth.val]
        ELSE [prepared EXCEPT !.Authorization = auth_call(a), !.by = "session", !.token = a.token]

\* Faulty variant: the request is sent whether or not the token was obtained.
outbound_always(e, kw) == super_request(kw, e.auth)

\* OAuthAPISession.request, lines 163-164: what is handed to the transport
outbound(e, kw) ==
    IF e.result.raised = "None" THEN super_request(kw, e.auth) ELSE NoRequest

\* the arguments of a direct call of cached_token.py
NoArgs == [grant_type |-> "", refresh_token |-> Missing]

Observe(op, kw, resp, e, sent) ==
    [op |-> op,
     args |-> NoArgs,
     kw |-> IF sent.made THEN kw ELSE NoKwargs,
     resp |-> IF e.result.posts = 1 THEN resp ELSE NoResponse,
     raised |-> e.result.raised,
     posts |-> e.result.posts,
     post |-> e.result.post,
     hit |-> e.result.hit,
     created |-> e.created,
     had_token |-> Truthy(cached_token(_access_token)),
     ret_token |-> e.result.token,
     ret_expiration |-> e.result.expiration,
     returned |-> IF op = "get_jwt_access_token" /\ e.result.raised = "None"
                  THEN e.auth.token ELSE Missing,
     sent |-> sent]

NoOrigin == [T0 |-> -1, E |-> -1]

Effects(e, resp, latency) ==
    /\ clock' = clock + (IF e.result.posts = 1 THEN latency ELSE 0)
    /\ _access_token' = e._access_token
    /\ auth' = e.auth
    /\ origin' = IF e.result.raised = "None" /\ e.result.posts = 1
                 THEN [T0 |-> clock, E |-> resp.body.expires_in.val]
                 ELSE origin
    /\ UNCHANGED <<settings, oauth_uri, threads>>

\* The inputs of one call: the auth server's answer and the time the token
\* POST takes, when the call makes one.
Calls(R) ==
    IF cached_unexpired(session_cache(Self, clock), clock)
    THEN {[resp |-> NoResponse, latency |-> 0]}
    ELSE {[resp |-> r, latency |-> d] : r \in R, d \in 0..MaxLatency}

\* OAuthAPISession.request
request(R, K, horizon) ==
    \E c \in Calls(R) :
        \E e \in {_ensure_authentication(Self, clock, c.resp)} :
            \E kw \in IF e.result.raised = "None" THEN K ELSE {NoKwargs} :
                /\ clock + c.latency <= horizon
                /\ Effects(e, c.resp, c.latency)
                /\ last' = Observe("request", kw, c.resp, e, outbound(e, kw))
                /\ UNCHANGED paging

\* OAuthAPISession.get_jwt_access_token
get_jwt_access_token(R, horizon) ==
    \E c \in Calls(R) :
        \E e \in {_ensure_authentication(Self, clock, c.resp)} :
            /\ clock + c.latency <= horizon
            /\ Effects(e, c.resp, c.latency)
            /\ last' = Observe("get_jwt_access_token", NoKwargs, c.resp, e, NoRequest)
            /\ UNCHANGED paging

\* Faulty variant: a timer replaces the token when its stored expiration
\* is reached.
Tick_background_refresh(horizon) ==
    \E d \in 1..MaxTick :
        /\ clock + d <= horizon
        /\ clock' = clock + d
        /\ _access_token' =
              IF Truthy(cached_token(_access_token)) /\ clock + d >= _access_token.expiration
              THEN [_access_token EXCEPT !.oauth_access_token = PyStr("cred2"),
                                         !.expiration = clock + d + 7]
              ELSE _access_token
        /\ UNCHANGED <<auth, settings, oauth_uri, origin, last, threads, paging>>

\* Time passes between calls.
Tick(horizon) ==
    \E d \in 1..MaxTick :
        /\ clock + d <= horizon
        /\ clock' = clock + d
        /\ UNCHANGED <<auth, settings, oauth_uri, _access_token, origin, last, threads, paging>>

\* A long pause between calls (Scenario A's 26s and 30s).
Pause(horizon) ==
    \E d \in {26, 30} :
        /\ clock + d <= horizon
        /\ clock' = clock + d
        /\ UNCHANGED <<auth, settings, oauth_uri, _access_token, origin, last, threads, paging>>

NoCall ==
    [op |-> "none", args |-> NoArgs, kw |-> NoKwargs, resp |-> NoResponse,
     raised |-> "None", posts |-> 0, post |-> NoPost, hit |-> FALSE,
     created |-> FALSE, had_token |-> FALSE,
     ret_token |-> PyNone, ret_expiration |-> 0, returned |-> Missing,
     sent |-> NoRequest]

\* A constructor call: which constructor, and its arguments.
Construction(via, base_url, timeout, bearer) ==
    [via |-> via, base_url |-> base_url, client_id |-> "test", client_secret |-> "secret",
     timeout |-> timeout, bearer |-> bearer]

Build(c) ==
    IF c.via = "OpenedxRESTAPIClient"
    THEN OpenedxRESTAPIClient(c.base_url, c.client_id, c.client_secret, c.timeout, c.bearer)
    ELSE OAuthAPISession(c.base_url, c.client_id, c.client_secret, c.timeout, c.bearer)

\* No CachedToken is shared by threads.
NoThreads == frames = <<>> /\ fetched = {}

NoOutcome == [op |-> "none", done |-> FALSE, raised |-> "None", value |-> <<>>]

\* No listing is under way.
NoPaging == server = <<>> /\ stack = <<>> /\ gets = <<>> /\ outcome = NoOutcome

\* The state when the constructor returns, in a process that imported the
\* module in one of the environments.
InitSessionIn(environments, constructions) ==
    \E env \in environments, c \in constructions :
        \E s \in {Build(c)} :
            /\ Imported(env)
            /\ NoThreads
            /\ NoPaging
    /\ NoPaging
            /\ constructed = c
            /\ auth = s.auth
            /\ _token_type = s._token_type
            /\ _base_url = s._base_url
            /\ _client_id = s._client_id
            /\ _client_secret = s._client_secret
            /\ _timeout = s._timeout
            /\ oauth_uri = s.oauth_uri
            /\ _access_token = s._access_token
            /\ clock = 0
            /\ origin = NoOrigin
            /\ last = NoCall

InitSession(constructions) == InitSessionIn({Environ0}, constructions)

\* OAuthAPISession(base_url, client_id, client_secret, bearer=...)
Init ==
    InitSession({Construction("OAuthAPISession", <<"http://h">>, Missing, PyBool(b)) :
                    b \in BOOLEAN})

Next ==
    \/ Tick(MaxClock)
    \/ request(Responses, Kwargs, MaxClock)
    \/ get_jwt_access_token(Responses, MaxClock)

Spec == Init /\ [][Next]_vars

NextA ==
    \/ Pause(MaxClockA)
    \/ request(ScenarioAResponses, Kwargs, MaxClockA)

SpecA == Init /\ [][NextA]_vars

----------------------------------------------------------------------------
\* Sessions built in every way the constructors allow, with the auth
\* endpoint redirected through oauth_uri.

BaseUrls == {<<"http://h/a">>, <<"http://h/a", "/">>, <<"http://h/a", "/", "oauth2">>}

OauthUris ==
    {PyNone,
     PyUrl(<<>>),
     PyUrl(<<"/", "edx">>),
     PyUrl(<<"/", "edx", "/", "oauth2", "/", "access_token">>),
     PyUrl(<<"/", "access_token">>),
     PyUrl(<<"/", "oauth2", "/", "access_token", "/">>)}

\* the timeout argument of the constructors: absent, or (6.1, 2)
Timeouts == {Missing, PyTuple(<<610, 200>>)}

\* the caller's API request without and with a timeout of its own
SessionKwargs == {NoKwargs, [NoKwargs EXCEPT !.timeout = PyTuple(<<900, 900>>)]}

InitAnySession ==
    InitSession({Construction(via, base_url, timeout, Missing) :
                    via \in {"OAuthAPISession", "OpenedxRESTAPIClient"},
                    base_url \in BaseUrls,
                    timeout \in Timeouts})

\* client_session.oauth_uri = ... (test_session.py line 50)
set_oauth_uri ==
    \E u \in OauthUris :
        /\ u # oauth_uri
        /\ oauth_uri' = u
        /\ UNCHANGED <<clock, auth, settings, _access_token, origin, last, threads, paging>>

NextSession ==
    \/ set_oauth_uri
    \/ Tick(MaxClockS)
    \/ request(FewResponses, SessionKwargs, MaxClockS)
    \/ get_jwt_access_token(FewResponses, MaxClockS)

SpecSession == InitAnySession /\ [][NextSession]_vars

----------------------------------------------------------------------------
\* Sessions in processes started in every environment user_agent() can
\* find, and user_agent() called again later.

InitAgent ==
    InitSessionIn(Environs,
                  {Construction("OAuthAPISession", <<"http://h/a">>, Missing, PyBool(b)) :
                      b \in BOOLEAN})

\* the process' environment changes after the import
setenv ==
    \E env \in Environs :
        /\ env # environ
        /\ environ' = env
        /\ UNCHANGED <<clock, USER_AGENT, auth, _token_type, _base_url, _client_id,
                       _client_secret, _timeout, oauth_uri, _access_token, constructed,
                       origin, last, threads, paging>>

\* user_agent() called by the application
user_agent_call ==
    \E r \in {user_agent(environ)} :
        /\ last' = [NoCall EXCEPT !.op = "user_agent",
                                  !.raised = r.raised,
                                  !.returned = IF r.raised = "None" THEN PyStr(r.value)
                                               ELSE Missing]
        /\ UNCHANGED <<clock, auth, settings, oauth_uri, _access_token, origin, threads, paging>>

NextAgent ==
    \/ setenv
    \/ user_agent_call
    \/ Tick(MaxClockS)
    \/ request(FewResponses, SessionKwargs, MaxClockS)
    \/ get_jwt_access_token(FewResponses, MaxClockS)

SpecAgent == InitAgent /\ [][NextAgent]_vars

----------------------------------------------------------------------------
\* The functions and classes used on their own, outside a session.

\* No session exists: obj names what is exercised instead.
Standalone(obj) ==
    /\ Imported(Environ0)
    /\ constructed = obj
    /\ clock = 0
    /\ _token_type = ""
    /\ _base_url = <<>>
    /\ _client_id = ""
    /\ _client_secret = ""
    /\ _timeout = Missing
    /\ oauth_uri = PyNone
    /\ origin = NoOrigin

\* The pieces of the URLs tried: "/", the two path words _get_oauth_url
\* looks for, and a text that ends in neither.
UrlPieces == {"/", "oauth2", "access_token", "http://h/a"}

Urls == UNION {[1..n -> UrlPieces] : n \in 0..MaxUrlLen}

InitUrl ==
    /\ Standalone([via |-> "_get_oauth_url"])
    /\ auth = [cls |-> "none", token |-> PyNone]
    /\ _access_token = PyNone
    /\ NoThreads
    /\ NoPaging
    /\ \E u \in Urls : last = [op |-> "none", url |-> u, out |-> <<>>]

\* _get_oauth_url applied to the URL, then to its own result, as
\* get_and_cache_oauth_access_token (line 134) and get_oauth_access_token
\* (line 77) do one after the other.
normalize ==
    /\ Len(last.out) < 2
    /\ last' = [op |-> "_get_oauth_url",
                url |-> last.url,
                out |-> Append(last.out,
                               _get_oauth_url(IF last.out = <<>> THEN last.url
                                              ELSE last.out[Len(last.out)]))]
    /\ UNCHANGED <<clock, auth, settings, oauth_uri, _access_token, origin, threads, paging>>

SpecUrl == InitUrl /\ [][normalize]_vars

\* Tokens and request headers the auth objects are tried on.
AuthTokens == {PyStr("abc"), PyStr("cred1"), PyStr(""), PyNone}

HeaderNames == {"Authorization", "Content-Type", "user-agent"}

HeaderValues == {"application/JSON", "Basic caller"}

HeaderDicts == UNION {[names -> HeaderValues] : names \in SUBSET HeaderNames}

\* BearerAuth(token) / SuppliedJwtAuth(token) and a prepared request
InitAuth ==
    /\ Standalone([via |-> "auth"])
    /\ _access_token = PyNone
    /\ \E cls \in {"BearerAuth", "SuppliedJwtAuth"}, t \in AuthTokens :
          auth = [cls |-> cls, token |-> t]
    /\ NoThreads
    /\ NoPaging
    /\ \E h \in HeaderDicts : last = [op |-> "none", headers |-> h, out |-> h]

\* requests calls the auth object on the prepared request
__call__ ==
    /\ last.op = "none"
    /\ last' = [op |-> "__call__", headers |-> last.headers,
                out |-> auth_apply(auth, last.headers)]
    /\ UNCHANGED <<clock, auth, settings, oauth_uri, _access_token, origin, threads, paging>>

SpecAuth == InitAuth /\ [][__call__]_vars

\* A CachedToken of the caller's own, and direct calls of
\* get_oauth_access_token.
GrantTypes == {"client_credentials", "refresh_token"}

RefreshTokens == {Missing, PyNone, PyStr(""), PyStr("rt")}

InitCache ==
    /\ \E token_type \in {"jwt", "bearer"}, grant_type \in GrantTypes,
          refresh_token \in RefreshTokens :
          /\ Standalone([via |-> "CachedToken", grant_type |-> grant_type,
                         refresh_token |-> refresh_token])
          /\ _access_token = CachedToken(0, <<"http://h/a">>, "test", "secret", token_type,
                                         grant_type, refresh_token, Missing, Missing)
    /\ auth = [cls |-> "none", token |-> PyNone]
    /\ last = NoCall
    /\ NoThreads
    /\ NoPaging

\* self.get_and_cache_oauth_access_token() on the caller's CachedToken
cache_get(R, horizon) ==
    \E c \in Calls(R) :
        \E r \in {get_and_cache_oauth_access_token(_access_token, clock, c.resp)} :
            \E e \in {[_access_token |-> r.self, auth |-> auth, created |-> FALSE, result |-> r]} :
                /\ clock + c.latency <= horizon
                /\ Effects(e, c.resp, c.latency)
                /\ last' = [Observe("get_and_cache_oauth_access_token", NoKwargs, c.resp, e, NoRequest)
                              EXCEPT !.args = [grant_type |-> _access_token.grant_type,
                                               refresh_token |-> _access_token.refresh_token]]
                /\ UNCHANGED paging

\* get_oauth_access_token(url, client_id, client_secret, token_type=...,
\* grant_type=..., refresh_token=...) called directly; the cache is not involved
fetch(R, horizon) ==
    \E resp \in R, latency \in 0..MaxLatency, grant_type \in GrantTypes,
       refresh_token \in RefreshTokens :
        \E r \in {get_oauth_access_token(clock, _access_token.url, "test", "secret",
                                         _access_token.token_type, grant_type,
                                         Default(refresh_token, PyNone), Missing, Missing, resp)} :
            \E e \in {[_access_token |-> _access_token, auth |-> auth, created |-> FALSE,
                       result |-> [self |-> _access_token, raised |-> r.raised,
                                   posts |-> r.posts, hit |-> FALSE, token |-> r.access_token,
                                   expiration |-> r.expires_at, post |-> r.post]]} :
                /\ clock + latency <= horizon
                /\ Effects(e, resp, latency)
                /\ last' = [Observe("get_oauth_access_token", NoKwargs, resp, e, NoRequest)
                              EXCEPT !.args = [grant_type |-> grant_type,
                                               refresh_token |-> refresh_token]]
                /\ UNCHANGED paging

NextCache ==
    \/ Tick(MaxClockS)
    \/ cache_get(FewResponses, MaxClockS)
    \/ fetch(FewResponses, MaxClockS)

SpecCache == InitCache /\ [][NextCache]_vars

----------------------------------------------------------------------------
\* One CachedToken shared by threads that call
\* get_and_cache_oauth_access_token with no lock.  The interpreter may switch
\* threads wherever a statement calls out (utcnow, timedelta, requests.post);
\* each action below is the code between two such points, and the pc of a
\* frame is the line of cached_token.py the thread is about to run.  A
\* return statement loads both attributes in one action.

Threads == 1..NumThreads

\* 200 with different tokens and lifetimes, or 500
RaceResponses ==
    {[net |-> "ok", status |-> 200, body |-> Body("object", PyStr("cred1"), PyInt(12))],
     [net |-> "ok", status |-> 200, body |-> Body("object", PyStr("cred2"), PyInt(20))],
     [net |-> "ok", status |-> 500, body |-> Body("invalid", Missing, Missing)]}

NoReturn == [made |-> FALSE, token |-> PyNone, expiration |-> 0]

\* the locals of a call: now (line 64), the fetched token and expiration
\* (line 155), and what the call returned
NoFrame == [pc |-> "idle", now |-> 0, token |-> PyNone, expiration |-> 0, ret |-> NoReturn]

InitRace ==
    /\ Standalone([via |-> "CachedToken", grant_type |-> "client_credentials",
                   refresh_token |-> Missing])
    /\ _access_token = CachedToken(0, <<"http://h/a">>, "test", "secret", "jwt",
                                   "client_credentials", Missing, Missing, Missing)
    /\ auth = [cls |-> "none", token |-> PyNone]
    /\ last = NoCall
    /\ frames = [t \in Threads |-> NoFrame]
    /\ fetched = {}
    /\ NoPaging

Step(t, frame) ==
    /\ frames' = [frames EXCEPT ![t] = frame]
    /\ UNCHANGED <<clock, auth, settings, oauth_uri, origin, last, paging>>

\* a thread calls get_and_cache_oauth_access_token (line 134)
enter(t) ==
    /\ frames[t].pc = "idle"
    /\ Step(t, [NoFrame EXCEPT !.pc = "137"])
    /\ UNCHANGED <<_access_token, fetched>>

\* line 137: if self.oauth_access_token
line137(t) ==
    /\ frames[t].pc = "137"
    /\ Step(t, [frames[t] EXCEPT !.pc = IF Truthy(_access_token.oauth_access_token)
                                        THEN "139" ELSE "143"])
    /\ UNCHANGED <<_access_token, fetched>>

\* lines 139-140: if utcnow() < self.expiration - 5s
line139(t) ==
    /\ frames[t].pc = "139"
    /\ Step(t, [frames[t] EXCEPT !.pc =
            IF clock < _access_token.expiration - ACCESS_TOKEN_EXPIRED_THRESHOLD_SECONDS
            THEN "141" ELSE "143"])
    /\ UNCHANGED <<_access_token, fetched>>

\* line 141: return self.oauth_access_token, self.expiration
line141(t) ==
    /\ frames[t].pc = "141"
    /\ Step(t, [frames[t] EXCEPT !.pc = "idle",
                                 !.ret = [made |-> TRUE,
                                          token |-> _access_token.oauth_access_token,
                                          expiration |-> _access_token.expiration]])
    /\ UNCHANGED <<_access_token, fetched>>

\* line 143 into get_oauth_access_token: now = utcnow() (line 64) and the
\* POST is sent (line 76)
line143(t) ==
    /\ frames[t].pc = "143"
    /\ Step(t, [frames[t] EXCEPT !.pc = "76", !.now = clock])
    /\ UNCHANGED <<_access_token, fetched>>

\* the POST returns: lines 84-95 and the unpacking of line 155 into locals,
\* or an exception that ends the call
line76(t) ==
    /\ frames[t].pc = "76"
    /\ \E resp \in RaceResponses :
          \E r \in {fetch_for(_access_token, frames[t].now, resp)} :
              IF r.raised # "None"
              THEN /\ Step(t, NoFrame)
                   /\ UNCHANGED <<_access_token, fetched>>
              ELSE /\ Step(t, [frames[t] EXCEPT !.pc = "155", !.token = r.access_token,
                                                !.expiration = r.expires_at])
                   /\ fetched' = fetched \cup
                        {[token |-> r.access_token,
                          expiration |-> r.expires_at - ACCESS_TOKEN_EXPIRED_THRESHOLD_SECONDS]}
                   /\ UNCHANGED _access_token

\* line 155: self.oauth_access_token = ...
line155(t) ==
    /\ frames[t].pc = "155"
    /\ _access_token' = [_access_token EXCEPT !.oauth_access_token = frames[t].token]
    /\ Step(t, [frames[t] EXCEPT !.pc = "156"])
    /\ UNCHANGED fetched

\* line 156: self.expiration = expiration - timedelta(seconds=5)
line156(t) ==
    /\ frames[t].pc = "156"
    /\ _access_token' = [_access_token EXCEPT !.expiration =
            frames[t].expiration - ACCESS_TOKEN_EXPIRED_THRESHOLD_SECONDS]
    /\ Step(t, [frames[t] EXCEPT !.pc = "158"])
    /\ UNCHANGED fetched

\* line 158: return self.oauth_access_token, self.expiration
line158(t) ==
    /\ frames[t].pc = "158"
    /\ Step(t, [NoFrame EXCEPT !.ret = [made |-> TRUE,
                                        token |-> _access_token.oauth_access_token,
                                        expiration |-> _access_token.expiration]])
    /\ UNCHANGED <<_access_token, fetched>>

TickRace ==
    /\ Tick(MaxClockR)
    /\ \E t \in Threads : frames[t].pc # "idle"

NextRace ==
    \/ TickRace
    \/ \E t \in Threads : enter(t)
    \/ \E t \in Threads : line137(t)
    \/ \E t \in Threads : line139(t)
    \/ \E t \in Threads : line141(t)
    \/ \E t \in Threads : line143(t)
    \/ \E t \in Threads : line76(t)
    \/ \E t \in Threads : line155(t)
    \/ \E t \in Threads : line156(t)
    \/ \E t \in Threads : line158(t)

SpecRace == InitRace /\ [][NextRace]_vars

----------------------------------------------------------------------------
\* The paginated listings of OpenedxRESTAPIClient: list_all_courses and
\* get_course_grades.  Each calls a nested helper that GETs one page through
\* the session and calls itself on the page's 'next' link; a frame of the
\* helper is [url, params, pc, results, next], pc being the statement the
\* frame is about to run.

\* client.py lines 40 and 51 (course_id filled in)
URL_COURSES_LIST == "/api/courses/v1/courses/"
URL_COURSE_GRADES == "/api/grades/v1/courses/cid/"

\* What the server answers for one page: 200 with a JSON object that has a
\* 'results' list or none, 200 with a bare JSON list (the grades API
\* without pagination), or 500.
PageKinds == {"results", "noresults", "list", "500"}

\* A finite chain of pages: page i links to page i + 1, the last page has
\* no 'next'; a bare list has no link and so ends its chain.
Chains(op) ==
    {c \in UNION {[1..n -> PageKinds] : n \in 1..MaxPages} :
        \A i \in 1..Len(c) :
            c[i] = "list" => op = "get_course_grades" /\ i = Len(c)}

\* the items of page i
Items(i) == <<2 * i - 1, 2 * i>>

\* the 'next' link of page i: an absolute URL of the same API with the
\* page number in its query (a non-empty str, held as its parts), or None
NextLink(op, chain, i) ==
    IF i < Len(chain) /\ chain[i] \in {"results", "noresults"}
    THEN [type |-> "link",
          val |-> [origin |-> <<"http://h">>,
                   path |-> IF op = "list_all_courses" THEN URL_COURSES_LIST
                            ELSE URL_COURSE_GRADES,
                   page |-> i + 1]]
    ELSE PyNone

\* urljoin(url, path) with a path that starts with '/': the scheme and host
\* of url, then path; the path and query of url are dropped
urljoin(url, path) == [origin |-> url.origin, path |-> path]

\* parse_qs(urlparse(next_page_url).query)
parse_qs(url) == [page |-> url.page]

\* the page a GET asks for: the first one when the query names none
Asked(params) == IF params = PyNone THEN 1 ELSE params.page

Frame(url, params) ==
    [url |-> url, params |-> params, pc |-> "get", results |-> <<>>, next |-> PyNone]

Top == stack[Len(stack)]

\* raise: no frame of the listing catches, the call ends with the exception
Raise(exc) ==
    /\ stack' = <<>>
    /\ outcome' = [outcome EXCEPT !.done = TRUE, !.raised = exc]

\* client.list_all_courses() / client.get_course_grades(course_id): lines
\* 218-227 and 402-405, the first call of the helper with the base URL.
\* One listing is followed from its call to its end.
Listing(op) ==
    /\ stack = <<>> /\ outcome.op = "none"
    /\ \E chain \in Chains(op) : server' = chain
    /\ stack' = <<Frame([origin |-> _base_url, path |-> "", page |-> 1], PyNone)>>
    /\ gets' = <<>>
    /\ outcome' = [op |-> op, done |-> FALSE, raised |-> "None", value |-> <<>>]
    /\ UNCHANGED <<clock, auth, settings, oauth_uri, _access_token, origin, last, threads>>

list_all_courses == Listing("list_all_courses")

get_course_grades == Listing("get_course_grades")

\* the body of a 200 answer read by the helper: lines 209-212 and 392-398
Read(frame, i) ==
    LET next == NextLink(outcome.op, server, i)
    IN  [frame EXCEPT !.results = IF server[i] = "noresults" THEN <<>> ELSE Items(i),
                      !.next = next,
                      !.pc = IF next # PyNone THEN "recurse" ELSE "return"]

\* Lines 206-207 and 390-391: self.session.get(urljoin(url, ...), params=...)
\* and raise_for_status().  The GET is a request of the session: it
\* authenticates first and is not sent when that fails.
page_get(R, horizon) ==
    /\ stack # <<>> /\ Top.pc = "get"
    /\ \E c \in Calls(R), transport \in {"ok", "error"} :
         \E e \in {_ensure_authentication(Self, clock, c.resp)} :
          \E sent \in {outbound(e, NoKwargs)} :
            /\ clock + c.latency <= horizon
            /\ Effects(e, c.resp, c.latency)
            /\ last' = Observe("request", NoKwargs, c.resp, e, sent)
            /\ gets' = IF sent.made
                       THEN Append(gets, [url |-> urljoin(Top.url,
                                                     IF outcome.op = "list_all_courses"
                                                     THEN URL_COURSES_LIST
                                                     ELSE URL_COURSE_GRADES),
                                          params |-> Top.params,
                                          Authorization |-> sent.Authorization])
                       ELSE gets
            /\ server' = server
            /\ IF ~sent.made THEN Raise(e.result.raised)
               ELSE IF transport = "error" THEN Raise("ConnectionError")
               ELSE IF server[Asked(Top.params)] = "500" THEN Raise("HTTPError")
               ELSE /\ stack' = [stack EXCEPT ![Len(stack)] = Read(Top, Asked(Top.params))]
                    /\ outcome' = outcome

\* Lines 213-214 and 396: results += helper(next_page_url, parse_qs(...)),
\* the call: a new frame, or RecursionError when the interpreter allows no
\* more
descend ==
    /\ stack # <<>> /\ Top.pc = "recurse"
    /\ IF Len(stack) < RecursionLimit
       THEN /\ stack' = Append([stack EXCEPT ![Len(stack)].pc = "join"],
                              Frame(Top.next.val, parse_qs(Top.next.val)))
            /\ outcome' = outcome
       ELSE Raise("RecursionError")
    /\ UNCHANGED <<clock, auth, settings, oauth_uri, _access_token, origin, last, threads,
                   server, gets>>

\* Lines 216 and 399: return results, to the frame below (which appends
\* them to its own, lines 214 and 396) or to the caller of the listing
return_results ==
    /\ stack # <<>> /\ Top.pc = "return"
    /\ IF Len(stack) = 1
       THEN /\ stack' = <<>>
            /\ outcome' = [outcome EXCEPT !.done = TRUE, !.value = Top.results]
       ELSE /\ stack' = [SubSeq(stack, 1, Len(stack) - 1)
                           EXCEPT ![Len(stack) - 1].results = @ \o Top.results,
                                  ![Len(stack) - 1].pc = "return"]
            /\ outcome' = outcome
    /\ UNCHANGED <<clock, auth, settings, oauth_uri, _access_token, origin, last, threads,
                   server, gets>>

\* OpenedxRESTAPIClient(base_url, client_id, client_secret)
InitClient ==
    InitSession({Construction("OpenedxRESTAPIClient", <<"http://h">>, Missing, Missing)})

NextPages ==
    \/ list_all_courses
    \/ get_course_grades
    \/ page_get(FewResponses, MaxClockS)
    \/ descend
    \/ return_results
    \/ Tick(MaxClockS)

SpecPages == InitClient /\ [][NextPages]_vars

----------------------------------------------------------------------------
\* Vocabulary of the properties.  A step is a call when it leaves an
\* observation or changes the cache; the unprimed variables are then the
\* state before the call, the primed ones the state when it returns.

Called == last' # last \/ _access_token' # _access_token

\* The stored expiration of the cache (request start + expires_in - 5s).
stored_expiration(tok) == IF Truthy(tok) THEN tok.expiration ELSE 0

\* The cache holds a usable token that a fetch put there.
HoldsFetchedToken == Truthy(cached_token(_access_token)) /\ origin # NoOrigin

Succeeded(obs) == obs.op # "none" /\ obs.raised = "None"
Failed(obs) == obs.op # "none" /\ obs.raised # "None"

\* "Bearer " or "JWT ", by the token type the session asks the server for
Prefix == IF _token_type = "bearer" THEN "Bearer " ELSE "JWT "

----------------------------------------------------------------------------
\* C1: for a token fetched at T0 with expires_in = E, every later call at a
\* time t with T0 <= t < T0+E-5 returns the cached token and issues no token
\* POST, and a call at t >= T0+E-5 issues exactly one token POST.
C1_SingleFetchPerWindow ==
    [][(Called /\ HoldsFetchedToken /\ origin.T0 <= clock)
        => IF clock < origin.T0 + origin.E - ACCESS_TOKEN_EXPIRED_THRESHOLD_SECONDS
           THEN last'.posts = 0 /\ last'.ret_token = cached_token(_access_token)
           ELSE last'.posts = 1]_vars

\* C2: the call never returns a token whose stored expiration (request start
\* + expires_in - 5s) is at or before the time at which it was stored.
C2_FreshAtStorage ==
    [][(Called /\ Succeeded(last') /\ last'.posts = 1)
        => last'.ret_expiration > clock']_vars

\* C3: whenever a call hands out a token, its true remaining lifetime
\* (request start + expires_in - current time) is not negative, and a token
\* served from the cache is served before its true expiry minus 5s.
C3_RemainingLifetime ==
    [][(Called /\ Succeeded(last'))
        => /\ origin'.T0 + origin'.E - clock' >= 0
           /\ last'.hit =>
                clock < origin.T0 + origin.E - ACCESS_TOKEN_EXPIRED_THRESHOLD_SECONDS]_vars

\* C4 (Scenario A): with expires_in = 60 at T0, a session request 30s after
\* T0 reuses the first token without an auth call; a request 56s after T0
\* makes exactly one auth call and session.auth.token is then the new token.
C4_ScenarioA ==
    [][(Called /\ last'.op = "request" /\ HoldsFetchedToken /\ origin.E = 60)
        => /\ clock = origin.T0 + 30
                => /\ last'.posts = 0
                   /\ auth'.token = cached_token(_access_token)
                   /\ last'.sent.made
                   /\ origin' = origin
           /\ clock = origin.T0 + 56
                => /\ last'.posts = 1
                   /\ Succeeded(last')
                   /\ auth'.token = last'.resp.body.access_token
                   /\ origin' = [T0 |-> clock, E |-> 60]]_vars

\* the refresh 56s after the first fetch (no fetch can happen in between)
C4_Witness ==
    /\ last.op = "request" /\ last.posts = 1 /\ last.had_token
    /\ origin = [T0 |-> 56, E |-> 60]
    /\ auth.token = last.resp.body.access_token
    /\ last.sent.made

\* C5: when obtaining the token fails, the error is raised and no outbound
\* request is handed to the transport; a request is sent only after the
\* token was obtained in the same call.
C5_FailFast ==
    /\ Failed(last) => ~last.sent.made
    /\ last.sent.made => last.op = "request" /\ last.raised = "None" /\ (last.hit \/ last.posts = 1)

C5_Witness ==
    last.op = "request" /\ last.raised = "HTTPError" /\ last.posts = 1 /\ ~last.sent.made

\* C6 (as claimed): every outbound request carries Authorization = prefix +
\* the token the cache returned in that call; nothing the caller passes for
\* the request replaces it.
C6_AlwaysFreshAuthorization ==
    last.sent.made => last.sent.Authorization = Prefix \o Format(last.ret_token)

\* C6 (amended): an outbound request without a per-request auth object of
\* the caller carries Authorization = prefix + the token the cache returned
\* in that call, whatever Authorization header the caller passed; with a
\* per-request auth object the header is the one that object sets.
C6_FreshUnlessCallerAuth ==
    last.sent.made =>
        IF last.kw.auth = Missing
        THEN last.sent.Authorization = Prefix \o Format(last.ret_token)
        ELSE last.sent.Authorization = last.kw.auth.val

C6_Witness ==
    /\ last.sent.made /\ last.kw.auth = Missing /\ last.kw.headers # Missing
    /\ last.sent.Authorization = Prefix \o "cred2"

\* C7: no outbound request carries an Authorization header built from an
\* unset (None) token.
C7_NoUnsetTokenSent ==
    (last.sent.made /\ last.sent.by = "session") => last.sent.token # PyNone

\* C8 (as claimed): after a failed refresh neither the cache nor the
\* session's auth object still holds the previous token.
C8_DropOnRefreshFailure ==
    [][(Called /\ Failed(last') /\ HoldsFetchedToken)
        => /\ cached_token(_access_token') # cached_token(_access_token)
           /\ auth'.token # cached_token(_access_token)]_vars

\* C8 (amended): after a failed refresh the error has surfaced, nothing was
\* sent, and the cache (token and stored expiration) and the session's auth
\* object hold the previous token, unchanged.
C8_KeptOnRefreshFailure ==
    [][(Called /\ Failed(last') /\ HoldsFetchedToken)
        => /\ _access_token' = _access_token
           /\ auth' = auth
           /\ auth'.token = cached_token(_access_token)
           /\ ~last'.sent.made]_vars

C8_Witness ==
    /\ Failed(last) /\ last.had_token /\ last.posts = 1
    /\ cached_token(_access_token) = PyStr("cred1")
    /\ auth.token = PyStr("cred1")

\* C9: a 4xx/5xx answer of the auth endpoint fails with the HTTP-status
\* error whatever the body, parsable or not, and nothing is cached.
C9_StatusBeforeBody ==
    [][(Called /\ last'.posts = 1 /\ last'.resp.net = "ok"
            /\ last'.resp.status >= 400 /\ last'.resp.status < 600)
        => /\ last'.raised = "HTTPError"
           /\ cached_token(_access_token') = cached_token(_access_token)
           /\ stored_expiration(_access_token) = IF Truthy(_access_token)
                                                 THEN stored_expiration(_access_token')
                                                 ELSE 0
           /\ origin' = origin]_vars

C9_Witness ==
    /\ last.raised = "HTTPError" /\ last.resp.status = 500
    /\ last.resp.body.kind = "invalid"

\* C10: a success status with a body that is not valid JSON, or valid JSON
\* without access_token or without expires_in, fails with the token-response
\* error (requests.RequestException), not the HTTP-status or a transport
\* error or any other.
C10_TokenResponseError ==
    (/\ last.posts = 1 /\ last.resp.net = "ok" /\ ~raise_for_status(last.resp.status)
     /\ \/ last.resp.body.kind # "object"
        \/ last.resp.body.access_token = Missing
        \/ last.resp.body.expires_in = Missing)
    => last.raised = "RequestException"

----------------------------------------------------------------------------
\* What identifies a cache and what it authenticates with: everything of a
\* CachedToken but the token and its expiration.
credentials(tok) ==
    <<tok.url, tok.client_id, tok.client_secret, tok.token_type, tok.grant_type,
      tok.refresh_token, tok.user_agent, tok.timeout>>

\* the prefix of the session's auth object
StrategyPrefix(a) == IF a.cls = "BearerAuth" THEN "Bearer " ELSE "JWT "

\* C11 (Scenario D): a CachedToken, or a direct get_oauth_access_token call,
\* with grant_type 'refresh_token' and no refresh token fails with the
\* configuration error before any network call, on every use, and the cache
\* is left without a token.
C11_RefreshGrantWithoutToken ==
    [][(Called /\ last'.args.grant_type = "refresh_token"
            /\ ~Truthy(last'.args.refresh_token))
        => /\ last'.raised = "AssertionError"
           /\ last'.posts = 0
           /\ ~last'.post.made
           /\ clock' = clock
           /\ _access_token' = _access_token
           /\ last'.op = "get_and_cache_oauth_access_token"
                => cached_token(_access_token') = PyNone]_vars

\* a later use of a cache configured that way
C11_Witness ==
    /\ last.op = "get_and_cache_oauth_access_token"
    /\ last.args.grant_type = "refresh_token" /\ last.args.refresh_token = PyNone
    /\ last.raised = "AssertionError" /\ last.posts = 0
    /\ clock = MaxClockS
    /\ cached_token(_access_token) = PyNone

\* C12: the body of every token request contains grant_type, client_id,
\* client_secret and token_type, and contains refresh_token if and only if
\* the grant type is 'refresh_token'.
C12_RefreshTokenIffRefreshGrant ==
    last.post.made =>
        /\ {"grant_type", "client_id", "client_secret", "token_type"} \subseteq DOMAIN last.post.data
        /\ "refresh_token" \in DOMAIN last.post.data
              <=> last.post.data["grant_type"].val = "refresh_token"

\* C13: with s the URL u without its trailing slashes, _get_oauth_url(u) is
\* s if s ends with '/access_token', s + '/access_token' if s ends with
\* '/oauth2', and s + '/oauth2/access_token' otherwise; 'http://h/a',
\* 'http://h/a/oauth2' and 'http://h/a/oauth2/access_token' all map to
\* 'http://h/a/oauth2/access_token'.
C13_Normalization ==
    last.op = "_get_oauth_url" =>
        LET s == rstrip(last.url)
        IN  /\ last.out[1] =
                 IF endswith(s, <<"/", "access_token">>) THEN s
                 ELSE IF endswith(s, <<"/", "oauth2">>) THEN s \o <<"/", "access_token">>
                 ELSE s \o <<"/", "oauth2", "/", "access_token">>
            /\ last.url \in {<<"http://h/a">>, <<"http://h/a", "/", "oauth2">>,
                             <<"http://h/a", "/", "oauth2", "/", "access_token">>}
                  => last.out[1] = <<"http://h/a", "/", "oauth2", "/", "access_token">>

\* C14: _get_oauth_url(_get_oauth_url(u)) = _get_oauth_url(u) for every URL
\* u, with or without trailing slashes.
C14_Idempotent ==
    Len(last.out) = 2 => last.out[2] = last.out[1]

C14_Witness ==
    /\ Len(last.out) = 2
    /\ last.url = <<"http://h/a", "/", "access_token", "/", "/">>
    /\ last.out[2] = last.url

\* C15: the token POST of a session whose oauth_uri was set before the first
\* request goes to the normalization of the stripped base_url + oauth_uri
\* (of the stripped base_url alone when oauth_uri is unset), and that
\* endpoint ends with '/oauth2/access_token'.
C15_TokenEndpoint ==
    [][(Called /\ ~Truthy(_access_token) /\ last'.post.made)
        => /\ last'.post.url =
                 _get_oauth_url(IF oauth_uri = PyNone THEN rstrip(constructed.base_url)
                                ELSE rstrip(constructed.base_url) \o oauth_uri.val)
           /\ endswith(last'.post.url, <<"/", "oauth2", "/", "access_token">>)]_vars

\* C16: for every token t, BearerAuth(t) sets the Authorization header of
\* the request to 'Bearer ' + t and SuppliedJwtAuth(t) sets it to 'JWT ' + t;
\* no other header of the request is added, removed or changed.
C16_HeaderFormatting ==
    (last.op = "__call__" /\ auth.token.type = "str") =>
        /\ auth.cls = "BearerAuth" => last.out["Authorization"] = "Bearer " \o auth.token.val
        /\ auth.cls = "SuppliedJwtAuth" => last.out["Authorization"] = "JWT " \o auth.token.val
        /\ DOMAIN last.out = DOMAIN last.headers \cup {"Authorization"}
        /\ \A k \in DOMAIN last.headers \ {"Authorization"} : last.out[k] = last.headers[k]

C16_Witness ==
    /\ last.op = "__call__"
    /\ auth = [cls |-> "BearerAuth", token |-> PyStr("abc")]
    /\ DOMAIN last.headers = {"Authorization", "Content-Type"}
    /\ last.headers["Authorization"] = "Basic caller"
    /\ last.out["Authorization"] = "Bearer abc"
    /\ last.out["Content-Type"] = "application/JSON"

\* C17: no call of the session changes its auth-header strategy; the
\* token_type of every token request is 'bearer' exactly when the strategy
\* is the 'Bearer ' one and 'jwt' exactly when it is the 'JWT ' one, and the
\* requests the session authorises carry that prefix.
C17_StrategyFixed ==
    [][Called
        => /\ auth'.cls = auth.cls
           /\ _token_type' = _token_type
           /\ last'.post.made =>
                /\ last'.post.data["token_type"].val = "bearer" <=> auth'.cls = "BearerAuth"
                /\ last'.post.data["token_type"].val = "jwt" <=> auth'.cls = "SuppliedJwtAuth"
           /\ (last'.sent.made /\ last'.sent.by = "session") =>
                last'.sent.Authorization = StrategyPrefix(auth) \o Format(last'.ret_token)]_vars

\* a bearer session refreshes its token and sends the request
C17_Witness ==
    /\ last.op = "request" /\ last.had_token /\ last.posts = 1
    /\ auth.cls = "BearerAuth"
    /\ last.post.data["token_type"] = PyStr("bearer")
    /\ last.sent.by = "session"
    /\ last.sent.Authorization = "Bearer cred2"

\* C18: after every successful _ensure_authentication, from request or from
\* get_jwt_access_token, session.auth.token is the token the session's
\* CachedToken holds, and get_jwt_access_token returns it; when the fetch
\* fails the call raises and returns no token.
C18_AuthTokenIsCachedToken ==
    [][(Called /\ last'.op \in {"request", "get_jwt_access_token"})
        => IF last'.raised = "None"
           THEN /\ auth'.token = cached_token(_access_token')
                /\ last'.op = "get_jwt_access_token" => last'.returned = auth'.token
           ELSE last'.returned = Missing]_vars

C18_Witness ==
    /\ last.op = "get_jwt_access_token" /\ last.had_token /\ last.posts = 1
    /\ last.returned = PyStr("cred2")
    /\ auth.token = PyStr("cred2")
    /\ cached_token(_access_token) = PyStr("cred2")

\* C19: every token POST of a session is made with the (connect, read)
\* timeout given at construction, and with the default (3.05, 5) when the
\* caller gave none, to OAuthAPISession or to OpenedxRESTAPIClient; the
\* timeout of the caller's API request plays no part.
C19_TokenFetchTimeout ==
    last.post.made =>
        /\ last.post.timeout.type = "tuple"
        /\ last.post.timeout =
              IF constructed.timeout = Missing
              THEN PyTuple(<<REQUEST_CONNECT_TIMEOUT, REQUEST_READ_TIMEOUT>>)
              ELSE constructed.timeout

\* C20 (as claimed): the token cache is created together with the session;
\* no call creates or replaces it or changes the credentials and endpoint
\* it uses.
C20_CacheFromConstruction ==
    [][Called
        => /\ ~last'.created
           /\ Truthy(_access_token)
           /\ credentials(_access_token') = credentials(_access_token)]_vars

\* C20 (amended): the session's credentials are fixed at construction; its
\* token cache is created by the first authentication attempt, successful
\* or failed, with the session's credentials and the endpoint configured at
\* that moment, and from then on no step replaces it or changes the
\* credentials and endpoint it uses.
C20_CacheFromFirstAttempt ==
    [][/\ settings' = settings
       /\ Truthy(_access_token)
            => /\ Truthy(_access_token')
               /\ credentials(_access_token') = credentials(_access_token)
               /\ Called => ~last'.created
       /\ (Called /\ ~Truthy(_access_token))
            => /\ last'.created
               /\ Truthy(_access_token')
               /\ credentials(_access_token') =
                     <<IF ~Truthy(oauth_uri) THEN _base_url ELSE _base_url \o oauth_uri.val,
                       _client_id, _client_secret, _token_type, "client_credentials",
                       PyNone, USER_AGENT, _timeout>>]_vars

\* the cache was built before oauth_uri was set and survives a failed refresh
C20_Witness ==
    /\ Failed(last) /\ last.had_token /\ ~last.created
    /\ oauth_uri = PyUrl(<<"/", "edx">>)
    /\ _access_token.url = _base_url
    /\ cached_token(_access_token) = PyStr("cred1")

C22_NoMixedPair ==
    /\ \A t \in Threads :
          frames[t].ret.made =>
              [token |-> frames[t].ret.token, expiration |-> frames[t].ret.expiration]
                  \in fetched
    /\ (\A t \in Threads : frames[t].pc # "156") =>
          \/ _access_token.oauth_access_token = PyNone
          \/ [token |-> _access_token.oauth_access_token,
              expiration |-> _access_token.expiration] \in fetched

\* the calls of a session
SessionOps == {"request", "get_jwt_access_token"}

\* the cached token fails the test of lines 137-140 at the clock's time
Stale ==
    /\ Truthy(cached_token(_access_token))
    /\ clock >= _access_token.expiration - ACCESS_TOKEN_EXPIRED_THRESHOLD_SECONDS

\* C23: a successful fetch overwrites the cache entry with the new token
\* and stored expiration = (clock read before the POST) + expires_in - 5s,
\* and returns exactly that pair; a call on a cache without a token always
\* fetches, whatever the clock reads.
C23_OverwriteOnFetch ==
    [][(Called /\ last'.op \in SessionOps)
        => /\ (Succeeded(last') /\ last'.posts = 1) =>
                /\ _access_token'.oauth_access_token = last'.resp.body.access_token
                /\ _access_token'.expiration =
                      clock + last'.resp.body.expires_in.val
                            - ACCESS_TOKEN_EXPIRED_THRESHOLD_SECONDS
                /\ last'.ret_token = _access_token'.oauth_access_token
                /\ last'.ret_expiration = _access_token'.expiration
           /\ cached_token(_access_token) = PyNone => last'.posts = 1]_vars

\* a refresh replaces a later stored expiration by an earlier one
C23_Witness ==
    /\ Succeeded(last) /\ last.had_token /\ last.posts = 1
    /\ cached_token(_access_token) = PyStr("cred2")
    /\ _access_token.expiration = last.ret_expiration
    /\ last.ret_expiration = origin.T0 - ACCESS_TOKEN_EXPIRED_THRESHOLD_SECONDS
    /\ origin.T0 >= 2

\* C24: a call served from the cache makes no token POST, leaves the cached
\* token and stored expiration as they were, and returns the pair the
\* originating fetch returned (request start + expires_in - 5s, the margin
\* subtracted once).
C24_HitChangesNothing ==
    [][(Called /\ last'.hit)
        => /\ last'.posts = 0
           /\ ~last'.post.made
           /\ clock' = clock
           /\ _access_token' = _access_token
           /\ origin' = origin
           /\ last'.ret_token = _access_token.oauth_access_token
           /\ last'.ret_expiration = _access_token.expiration
           /\ last'.ret_expiration =
                 origin.T0 + origin.E - ACCESS_TOKEN_EXPIRED_THRESHOLD_SECONDS]_vars

C24_Witness ==
    /\ last.op = "get_jwt_access_token" /\ last.hit
    /\ origin = [T0 |-> 0, E |-> 12]
    /\ clock = 1
    /\ last.ret_expiration = 7
    /\ _access_token.expiration = 7
    /\ last.returned = PyStr("cred1")

\* C25: a call issues at most one token POST, none on a hit; when the POST
\* fails, the error of that one attempt reaches the caller, nothing is sent
\* or returned, and the next call after a failure issues a new POST.
C25_NoRetry ==
    [][(Called /\ last'.op \in SessionOps)
        => /\ last'.posts \in {0, 1}
           /\ last'.hit => last'.posts = 0
           /\ Failed(last') =>
                /\ last'.posts = 1
                /\ last'.raised = fetch_for(session_cache(Self, clock), clock, last'.resp).raised
                /\ ~last'.sent.made
                /\ last'.returned = Missing
           /\ Failed(last) => last'.posts = 1]_vars

C25_Witness ==
    /\ last.op = "get_jwt_access_token" /\ Failed(last)
    /\ last.raised = "RequestException" /\ last.posts = 1
    /\ last.had_token

\* C26: a token POST is issued only within a call; while time passes with
\* no call, the cache, the auth object and the fetch history stay as they
\* are, also past the stored expiration; the next call then fetches.
C26_LazyRefresh ==
    [][/\ (last' # last /\ last'.post.made) => last'.op \in SessionOps
       /\ last' = last =>
            /\ cached_token(_access_token') = cached_token(_access_token)
            /\ stored_expiration(_access_token') = stored_expiration(_access_token)
            /\ auth' = auth
       /\ (Called /\ Truthy(cached_token(_access_token))
                  /\ clock >= _access_token.expiration)
            => /\ last'.posts = 1
               /\ Succeeded(last') =>
                    _access_token'.oauth_access_token = last'.resp.body.access_token]_vars

\* the clock passed the stored expiration (7) of the first token with no
\* call in between, and the next call refreshed
C26_Witness ==
    /\ Succeeded(last) /\ last.had_token /\ last.posts = 1
    /\ origin.T0 >= 7
    /\ cached_token(_access_token) = PyStr("cred2")

\* C27: when the fetch raises, the cache's token and expiration and the
\* session's auth.token keep the values they had before the call.
C27_UnchangedOnError ==
    [][(Called /\ Failed(last'))
        => /\ cached_token(_access_token') = cached_token(_access_token)
           /\ Truthy(_access_token) => _access_token' = _access_token
           /\ auth'.token = auth.token
           /\ origin' = origin]_vars

C27_Witness ==
    /\ Failed(last) /\ last.raised = "TypeError" /\ last.had_token
    /\ cached_token(_access_token) = PyStr("cred2")
    /\ auth.token = PyStr("cred2")

\* C28: a stale token that is still stored is not handed out: a call that
\* finds the cached token stale, a failed refresh before it or not, is not
\* served from the cache, and a request it sends carries the token fetched
\* in that very call.
C28_StaleNeverServed ==
    [][(Called /\ last'.op \in SessionOps /\ (Stale \/ (Failed(last) /\ last.had_token)))
        => /\ ~last'.hit
           /\ last'.posts = 1
           /\ Failed(last') => ~last'.sent.made /\ last'.returned = Missing
           /\ Succeeded(last') =>
                /\ last'.ret_token = last'.resp.body.access_token
                /\ auth'.token = last'.resp.body.access_token]_vars

\* the stale token is still stored after a failed refresh
C28_Witness ==
    /\ Failed(last) /\ last.had_token /\ last.raised = "ConnectionError"
    /\ Stale
    /\ clock > _access_token.expiration
    /\ auth.token = cached_token(_access_token)
    /\ ~last.sent.made

\* C29: an empty access_token is stored with its expiration and never
\* served from the cache: every call that finds it issues a token POST,
\* however far in the future the stored expiration is.
C29_EmptyTokenNeverCached ==
    [][(Called /\ last'.op \in SessionOps)
        => /\ (Succeeded(last') /\ last'.posts = 1
                    /\ last'.resp.body.access_token = PyStr("")) =>
                /\ cached_token(_access_token') = PyStr("")
                /\ _access_token'.expiration =
                      clock + last'.resp.body.expires_in.val
                            - ACCESS_TOKEN_EXPIRED_THRESHOLD_SECONDS
           /\ (Truthy(_access_token) /\ cached_token(_access_token) = PyStr("")) =>
                /\ ~last'.hit
                /\ last'.posts = 1]_vars

\* an empty token is stored with an expiration a non-empty one would be
\* served under
C29_Witness ==
    /\ cached_token(_access_token) = PyStr("")
    /\ clock < _access_token.expiration - ACCESS_TOKEN_EXPIRED_THRESHOLD_SECONDS
    /\ last.posts = 1 /\ ~last.created /\ ~last.had_token
    /\ origin.T0 >= 1

\* C30: the first authentication attempt of a session creates the
\* CachedToken, also when its fetch fails, with the endpoint made of the
\* base URL and the oauth_uri of that moment; a later change of oauth_uri
\* changes neither the cache nor the URL of the later token POSTs.
C30_EndpointFixedAtFirstAttempt ==
    [][/\ oauth_uri' # oauth_uri => _access_token' = _access_token
       /\ (Called /\ ~Truthy(_access_token)) =>
            /\ Truthy(_access_token')
            /\ _access_token'.url = IF ~Truthy(oauth_uri) THEN _base_url
                                    ELSE _base_url \o oauth_uri.val
       /\ (Called /\ Truthy(_access_token)) => _access_token'.url = _access_token.url
       /\ (Called /\ last'.post.made) =>
            last'.post.url = _get_oauth_url(_get_oauth_url(_access_token'.url))]_vars

\* the first fetch failed, oauth_uri was set afterwards, and the next token
\* POST still goes to the first endpoint
C30_Witness ==
    /\ last.posts = 1 /\ ~last.created /\ ~last.had_token
    /\ oauth_uri = PyUrl(<<"/", "edx">>)
    /\ _base_url = <<"http://h/a">>
    /\ last.post.url = <<"http://h/a", "/", "oauth2", "/", "access_token">>

\* the concatenation of the results of pages 1..n of a chain
RECURSIVE Concatenation(_, _)
Concatenation(chain, n) ==
    IF n = 0 THEN <<>>
    ELSE Concatenation(chain, n - 1) \o (IF chain[n] = "noresults" THEN <<>> ELSE Items(n))

\* the exceptions with which a page request fails: the token fetch before
\* it, the transport, or the status of the answer
PageRequestErrors == {"ConnectionError", "RequestException", "HTTPError", "TypeError"}

\* the GETs issued are those of pages 1..n in order, one each, authenticated
OneGetPerPage(n) ==
    /\ Len(gets) = n
    /\ \A i \in 1..n :
         /\ gets[i].params = (IF i = 1 THEN PyNone ELSE [page |-> i])
         /\ gets[i].url.origin = <<"http://h">>
         /\ gets[i].Authorization = auth_call([auth EXCEPT !.token = PyStr("cred1")])

\* A listing that returned went through the whole chain: one authenticated
\* GET per page, the results concatenated in page order.
ReturnsWholeChain ==
    (outcome.done /\ outcome.raised = "None")
        => /\ OneGetPerPage(Len(server))
           /\ outcome.value = Concatenation(server, Len(server))

\* A listing raises when a page request failed, or when the chain is deeper
\* than the interpreter's recursion limit.
RaisesOnFailureOrDepth ==
    (outcome.done /\ outcome.raised # "None")
        => \/ outcome.raised \in PageRequestErrors
           \/ /\ outcome.raised = "RecursionError"
              /\ Len(server) > RecursionLimit
              /\ OneGetPerPage(RecursionLimit)

\* C31: list_all_courses and get_course_grades follow the 'next' links page
\* by page with one authenticated GET per page and return the concatenation
\* of the pages' results in page order; they end exactly when a page without
\* a 'next' link is reached, or with the error of a page request that
\* failed, for every finite chain of pages.
C31_Pagination ==
    outcome.done
        => \/ /\ outcome.raised = "None"
              /\ OneGetPerPage(Len(server))
              /\ outcome.value = Concatenation(server, Len(server))
           \/ outcome.raised \in PageRequestErrors

=============================================================================
